---- MODULE Spec2Model ----
(***************************************************************************)
(* Similarity-graph construction and clustering of DS210_project           *)
(* (src/src/graph.rs), driven by the graph section of main                 *)
(* (src/src/main.rs), and the yearly lists of find_top_countries           *)
(* (src/src/eda_statistics.rs).                                            *)
(*                                                                         *)
(* Numbers.  The code computes in f64, and so does the model: a double is  *)
(* its sign, its 53-bit mantissa and its exponent, and square root,        *)
(* product and quotient round to nearest, ties to even, as IEEE 754 has    *)
(* them.  Mantissas and the wider intermediate results are sequences of    *)
(* 14-bit limbs.  Sums of products of the small integers that occur are    *)
(* exact in f64 and are kept as integers.  A division by zero gives an     *)
(* infinity or NaN.  Subnormals, overflow and the sign of a zero do not    *)
(* occur in the model.                                                     *)
(*                                                                         *)
(* Indices.  petgraph numbers nodes and edges from 0; sequences here are   *)
(* numbered from 1, so node k of the model is NodeIndex(k-1).  CSV fields  *)
(* keep the code's 0-based numbering through Get.                          *)
(***************************************************************************)
EXTENDS Integers, Sequences, FiniteSets, TLC

(***************************************************************************)
(* Bounds of the model                                                     *)
(***************************************************************************)
\* largest number of data rows in the input file
MaxRows == 4

\* largest length and largest absolute entry of the vectors handed to
\* calculate_similarity in the specification of that function alone
MaxLen == 3
MaxVal == 1

(***************************************************************************)
(* Small integers                                                          *)
(***************************************************************************)
Abs(x) == IF x < 0 THEN -x ELSE x

Sgn(x) == IF x > 0 THEN 1 ELSE IF x < 0 THEN -1 ELSE 0

Min(a, b) == IF a <= b THEN a ELSE b

Max(a, b) == IF a >= b THEN a ELSE b

(***************************************************************************)
(* Natural numbers of any size: sequences of limbs, least significant      *)
(* first, each limb below Base                                             *)
(***************************************************************************)
\* 2^14: a column of four limb products stays below 2^31
Base == 16384

LimbBits == 14

\* the limbs of a natural number below 2^31
Nat3(n) == <<n % Base, (n \div Base) % Base, n \div (Base * Base)>>

Limb(a, i) == IF 1 <= i /\ i <= Len(a) THEN a[i] ELSE 0

\* -1, 0, 1 as a < b, a = b, a > b
NatCmp(a, b) ==
    LET differ == {i \in 1..Max(Len(a), Len(b)) : Limb(a, i) # Limb(b, i)}
        top == CHOOSE i \in differ : \A j \in differ : j <= i
    IN  IF differ = {} THEN 0 ELSE IF Limb(a, top) < Limb(b, top) THEN -1 ELSE 1

\* a function on 1..n as the sequence of its values
Limbs(f) == f \o <<>>

RECURSIVE Propagate(_, _, _)
\* the limbs of the number whose columns (least significant first) are cols,
\* from column i on with the carry given
Propagate(cols, i, carry) ==
    IF i > Len(cols) THEN <<>>
    ELSE LET t == cols[i] + carry
         IN  <<t % Base>> \o Propagate(cols, i + 1, t \div Base)

\* the sum of the products a[i] * b[c + 1 - i]: a has four limbs at most
Column(a, b, c) ==
    Limb(a, 1) * Limb(b, c) + Limb(a, 2) * Limb(b, c - 1)
    + Limb(a, 3) * Limb(b, c - 2) + Limb(a, 4) * Limb(b, c - 3)

\* a * b, for a of four limbs at most
NatMul(a, b) ==
    Propagate(Limbs([c \in 1..(Len(a) + Len(b)) |-> Column(a, b, c)]), 1, 0)

\* a + 1
NatSucc(a) ==
    Propagate(Limbs([i \in 1..(Len(a) + 1) |-> Limb(a, i) + (IF i = 1 THEN 1 ELSE 0)]), 1, 0)

\* a * 2^t
NatShl(a, t) ==
    [i \in 1..(t \div LimbBits) |-> 0] \o NatMul(<<2 ^ (t % LimbBits)>>, a)

\* floor(a / 2^t)
NatShr(a, t) ==
    LET w == t \div LimbBits
        r == t % LimbBits
    IN  Limbs([i \in 1..Max(Len(a) - w, 0) |->
                  (Limb(a, i + w) \div (2 ^ r))
                  + (Limb(a, i + w + 1) % (2 ^ r)) * (2 ^ (LimbBits - r))])

\* bit t of a (bit 0 the least significant)
NatBit(a, t) == (Limb(a, (t \div LimbBits) + 1) \div (2 ^ (t % LimbBits))) % 2

\* a is not a multiple of 2^t
NatLowBits(a, t) ==
    \/ \E i \in 1..(t \div LimbBits) : Limb(a, i) # 0
    \/ Limb(a, (t \div LimbBits) + 1) % (2 ^ (t % LimbBits)) # 0

\* the number of bits of a limb
LimbLen(x) == CHOOSE n \in 0..LimbBits : x < 2 ^ n /\ (n > 0 => x >= 2 ^ (n - 1))

\* the number of bits of a
NatLen(a) ==
    LET used == {i \in 1..Len(a) : a[i] # 0}
        top == CHOOSE i \in used : \A j \in used : j <= i
    IN  IF used = {} THEN 0 ELSE LimbBits * (top - 1) + LimbLen(a[top])

NatOdd(a) == Limb(a, 1) % 2 = 1

\* q * q <= t when y is empty, q * y <= t otherwise
Fits(q, y, t) == NatCmp(NatMul(q, IF y = <<>> THEN q ELSE y), t) <= 0

RECURSIVE LimbSearch(_, _, _, _, _, _)
\* the largest value in lo..hi of limb i of q for which Fits holds
LimbSearch(q, i, lo, hi, y, t) ==
    IF lo = hi THEN lo
    ELSE LET mid == (lo + hi + 1) \div 2
         IN  IF Fits([q EXCEPT ![i] = mid], y, t)
             THEN LimbSearch(q, i, mid, hi, y, t)
             ELSE LimbSearch(q, i, lo, mid - 1, y, t)

\* a - b, for a >= b: a plus the complement of b plus one, the carry out
\* of the last limb dropped
NatSub(a, b) ==
    Propagate(Limbs([i \in 1..Len(a) |-> Limb(a, i) + (Base - 1 - Limb(b, i))]), 1, 1)

\* a natural number below 2^31 from its limbs
NatInt(a) == Limb(a, 1) + Base * Limb(a, 2) + Base * Base * Limb(a, 3)

\* the leading 16 bits of a 53-bit number are the bits from this one on
LeadShift == 37

\* bounds <<lo, hi>> on limb i of the largest q for which Fits holds, the
\* limbs of q above i being right and those from i down zero: any limb for
\* a square root; for a quotient by the 53-bit y, the quotients of the
\* leading bits of the remainder by the leading bits of y, rounded apart
LimbRange(q, i, y, t) ==
    IF y = <<>> THEN <<0, Base - 1>>
    ELSE LET remainder == NatSub(t, NatMul(q, y))
             lead == NatInt(NatShr(remainder, LeadShift + LimbBits * (i - 1)))
             ylead == NatInt(NatShr(y, LeadShift))
         IN  <<lead \div (ylead + 1), Min(Base - 1, (lead + 1) \div ylead)>>

RECURSIVE Search(_, _, _, _)
\* the limbs i, i-1, ..., 1 of the largest q for which Fits holds, the limbs
\* above i being those of q
Search(q, i, y, t) ==
    IF i = 0 THEN q
    ELSE LET range == LimbRange(q, i, y, t)
             limb == LimbSearch(q, i, range[1], range[2], y, t)
         IN  Search([q EXCEPT ![i] = limb], i - 1, y, t)

\* floor(sqrt(t)) when y is empty, floor(t / y) otherwise, below Base^4
Largest(y, t) == Search(<<0, 0, 0, 0>>, 4, y, t)

(***************************************************************************)
(* f64: a finite double is <<sign, mantissa, exponent>>, the value         *)
(* sign * mantissa * 2^exponent with 2^52 <= mantissa < 2^53, or zero      *)
(***************************************************************************)
Precision == 53

Zero == <<0, <<0, 0, 0, 0>>, 0>>

\* round to nearest, ties to even, the value q * 2^e where q has 54 bits and
\* inexact tells that bits below q were dropped
Round(sign, q, inexact, e) ==
    LET kept == SubSeq(NatShr(q, 1) \o <<0, 0, 0, 0>>, 1, 4)
        up == NatBit(q, 0) = 1 /\ (inexact \/ NatOdd(kept))
        m == IF up THEN SubSeq(NatSucc(kept), 1, 4) ELSE kept
    IN  IF NatLen(m) > Precision
        THEN <<sign, NatShr(m, 1), e + 2>>
        ELSE <<sign, m, e + 1>>

\* an integer of small size as f64: exact
FromInt(x) ==
    IF x = 0 THEN Zero
    ELSE LET n == Nat3(Abs(x))
         IN  <<Sgn(x), SubSeq(NatShl(n, Precision - NatLen(n)) \o <<0>>, 1, 4),
               NatLen(n) - Precision>>

\* the results of dividing by zero: an infinity of the sign given, and NaN;
\* their mantissa is empty
Infinity(sign) == <<sign, <<>>, 0>>

NaN == <<0, <<>>, 0>>

IsNaN(a) == a = NaN

IsInfinite(a) == a[2] = <<>> /\ a[1] # 0

\* a * b, a and b finite
Mul(a, b) ==
    IF a[1] = 0 \/ b[1] = 0 THEN Zero
    ELSE LET product == NatMul(a[2], b[2])
             drop == NatLen(product) - (Precision + 1)
         IN  Round(a[1] * b[1], NatShr(product, drop), NatLowBits(product, drop),
                   a[3] + b[3] + drop)

\* a / b, a and b finite: x / 0.0 is an infinity, 0.0 / 0.0 is NaN
Div(a, b) ==
    IF b[1] = 0 THEN (IF a[1] = 0 THEN NaN ELSE Infinity(a[1]))
    ELSE IF a[1] = 0 THEN Zero
    ELSE LET k == IF NatCmp(a[2], b[2]) >= 0 THEN Precision ELSE Precision + 1
             t == NatShl(a[2], k)
             q == Largest(b[2], t)
         IN  Round(a[1] * b[1], q, NatCmp(NatMul(q, b[2]), t) # 0, a[3] - b[3] - k)

\* f64::sqrt of the integer s, 0 <= s < Base
SquareRoot(s) ==
    IF s = 0 THEN Zero
    ELSE LET h == (NatLen(<<s>>) - 1) \div 2
             k == Precision - h
             t == NatShl(<<s>>, 2 * k)
             q == Largest(<<>>, t)
         IN  Round(1, q, NatCmp(NatMul(q, q), t) # 0, -k)

\* -1, 0, 1 as a < b, a = b, a > b, neither being NaN
Cmp(a, b) ==
    IF a[1] # b[1] THEN (IF a[1] < b[1] THEN -1 ELSE 1)
    ELSE IF a[1] = 0 THEN 0
    ELSE IF IsInfinite(a) \/ IsInfinite(b)
         THEN (IF IsInfinite(a) /\ IsInfinite(b) THEN 0
               ELSE IF IsInfinite(a) THEN a[1] ELSE -a[1])
    ELSE IF a[3] # b[3] THEN (IF a[3] < b[3] THEN -a[1] ELSE a[1])
    ELSE a[1] * NatCmp(a[2], b[2])

\* a >= b: false when either is NaN
Ge(a, b) == ~IsNaN(a) /\ ~IsNaN(b) /\ Cmp(a, b) >= 0

\* a > b: false when either is NaN
Gt(a, b) == ~IsNaN(a) /\ ~IsNaN(b) /\ Cmp(a, b) > 0

\* the literal p/q of the source text: the double nearest to it
Lit(p, q) == Div(FromInt(p), FromInt(q))

(***************************************************************************)
(* Option values                                                           *)
(***************************************************************************)
None == <<>>

Some(x) == <<x>>

IsSome(o) == o # None

Unwrap(o) == o[1]

(***************************************************************************)
(* The input file                                                          *)
(***************************************************************************)
\* the header row, consumed by csv::Reader; it fixes the field count
Header == <<"Country", "F1", "F2">>

\* the feature columns requested by the caller (0-based field numbers);
\* the last one lies beyond the end of every record
Features == <<1, 2, 3>>

\* the data rows a file may hold: the second has a cell that does not parse
\* in its first feature column, the last has a field too few
Records ==
    { <<"A", "1", "0">>,
      <<"B", "", "-1">>,
      <<"C", "0", "1">>,
      <<"D", "0", "-1">>,
      <<"", "1", "1">>,
      <<"Z", "0", "0">>,
      <<"F", "1">> }

\* the data rows of the tables of the worked cases: three rows with the
\* vectors [1, 0], [1, 0] and [0, 1], a row whose vector has the sum of
\* squares 13, a row with the label of the first and no cell that parses,
\* and a row with a field too few
CaseRecords ==
    { <<"A", "1", "0">>,
      <<"B", "1", "0">>,
      <<"C", "0", "1">>,
      <<"E", "2", "3">>,
      <<"A", "x", "">>,
      <<"F", "1">> }

\* the thresholds a caller may pass: -2, 0, 0.7, 2 (main passes 0.8, which
\* the similarities of the rows above meet exactly when 0.7 < similarity)
Thresholds == { Lit(-2, 1), Lit(0, 1), Lit(7, 10), Lit(2, 1) }

\* StringRecord::get: field idx (0-based) of a record, if it has one
Get(record, idx) ==
    IF idx + 1 <= Len(record) THEN Some(record[idx + 1]) ELSE None

\* str::parse::<f64>().ok() on the cells that occur
ParseF64(val) ==
    CASE val = "1" -> Some(1)
      [] val = "-1" -> Some(-1)
      [] val = "0" -> Some(0)
      [] val = "2" -> Some(2)
      [] val = "-2" -> Some(-2)
      [] val = "3" -> Some(3)
      [] val = "-3" -> Some(-3)
      [] OTHER -> None

\* record.get(idx).and_then(|val| val.parse::<f64>().ok())
ParsedCell(record, idx) ==
    IF IsSome(Get(record, idx)) THEN ParseF64(Unwrap(Get(record, idx))) ELSE None

\* variant: a cell that is dropped leaves a zero in its place
RECURSIVE FilterMapDefaulting(_, _)
FilterMapDefaulting(record, feats) ==
    IF feats = <<>> THEN <<>>
    ELSE LET cell == ParsedCell(record, Head(feats))
             rest == FilterMapDefaulting(record, Tail(feats))
         IN  IF IsSome(cell) THEN <<Unwrap(cell)>> \o rest ELSE <<0>> \o rest

\* features.iter().filter_map(...).collect(): the parsed cells, in the
\* order of the requested columns, the others dropped
RECURSIVE FilterMap(_, _)
FilterMap(record, feats) ==
    IF feats = <<>> THEN <<>>
    ELSE LET cell == ParsedCell(record, Head(feats))
             rest == FilterMap(record, Tail(feats))
         IN  IF IsSome(cell) THEN <<Unwrap(cell)>> \o rest ELSE rest

FeaturesRow(record) == FilterMap(record, Features)

\* variant: the label is read from field 1
CountryFromNext(record) ==
    IF IsSome(Get(record, 1)) THEN Unwrap(Get(record, 1)) ELSE ""

\* record.get(0).unwrap_or("")
Country(record) ==
    IF IsSome(Get(record, 0)) THEN Unwrap(Get(record, 0)) ELSE ""

\* reader.records() yields Err for a record whose field count differs from
\* the header's (the reader is not flexible)
RecordOk(record) == Len(record) = Len(Header)

(***************************************************************************)
(* calculate_similarity                                                    *)
(***************************************************************************)
RECURSIVE SumTo(_, _)
\* f(1) + ... + f(n)
SumTo(f, n) == IF n = 0 THEN 0 ELSE SumTo(f, n - 1) + f[n]

\* vec1.iter().zip(vec2).map(|(x, y)| x * y).sum(): zip stops at the end of
\* the shorter vector
DotProduct(vec1, vec2) ==
    LET n == Min(Len(vec1), Len(vec2))
    IN  SumTo([p \in 1..n |-> vec1[p] * vec2[p]], n)

\* vec.iter().map(|x| x.powi(2)).sum::<f64>()
SumSquares(vec) == SumTo([p \in 1..Len(vec) |-> vec[p] * vec[p]], Len(vec))

\* the sums of squares that occur: of the vectors of the similarity function
\* alone, and of the feature rows of the input files
Sums ==
    (0..(MaxLen * MaxVal * MaxVal))
    \cup {SumSquares(FeaturesRow(record)) : record \in Records \cup CaseRecords}

\* the largest of them, which bounds every dot product
MaxSum == CHOOSE m \in Sums : \A other \in Sums : other <= m

\* the square roots of the sums of squares, computed once
Roots == [s \in Sums |-> SquareRoot(s)]

\* f64::sqrt of a sum of squares
Sqrt(s) == Roots[s]

\* dot_product / (magnitude1 * magnitude2) in f64, computed once for every
\* dot product and every pair of sums of squares
Quotients ==
    [d \in -MaxSum..MaxSum |->
        [s1 \in Sums |->
            [s2 \in Sums |-> Div(FromInt(d), Mul(Sqrt(s1), Sqrt(s2)))]]]

\* dot_product / (magnitude1 * magnitude2), the magnitudes being the square
\* roots of sq1 and sq2
Quotient(dot_product, sq1, sq2) == Quotients[dot_product][sq1][sq2]

\* ... .sqrt()
Magnitude(vec) == Sqrt(SumSquares(vec))

\* variant: both magnitudes taken over the zipped positions only
calculate_similarity_shared(vec1, vec2) ==
    LET n == Min(Len(vec1), Len(vec2))
        dot_product == DotProduct(vec1, vec2)
        magnitude1 == Magnitude(SubSeq(vec1, 1, n))
        magnitude2 == Magnitude(SubSeq(vec2, 1, n))
    IN  IF Gt(magnitude1, Zero) /\ Gt(magnitude2, Zero)
        THEN Quotient(dot_product, SumSquares(SubSeq(vec1, 1, n)),
                      SumSquares(SubSeq(vec2, 1, n)))
        ELSE Zero

\* variant: a vector of magnitude zero is taken for similar to every other
calculate_similarity_zero_similar(vec1, vec2) ==
    LET dot_product == DotProduct(vec1, vec2)
        magnitude1 == Magnitude(vec1)
        magnitude2 == Magnitude(vec2)
    IN  IF Gt(magnitude1, Zero) /\ Gt(magnitude2, Zero)
        THEN Quotient(dot_product, SumSquares(vec1), SumSquares(vec2))
        ELSE FromInt(1)

\* variant: the quotient is taken whatever the magnitudes
calculate_similarity_unguarded(vec1, vec2) ==
    Quotient(DotProduct(vec1, vec2), SumSquares(vec1), SumSquares(vec2))

\* variant: the first magnitude stands for both
calculate_similarity_one_norm(vec1, vec2) ==
    LET dot_product == DotProduct(vec1, vec2)
        magnitude1 == Magnitude(vec1)
        magnitude2 == Magnitude(vec2)
    IN  IF Gt(magnitude1, Zero) /\ Gt(magnitude2, Zero)
        THEN Quotient(dot_product, SumSquares(vec1), SumSquares(vec1))
        ELSE Zero

calculate_similarity(vec1, vec2) ==
    LET dot_product == DotProduct(vec1, vec2)
        magnitude1 == Magnitude(vec1)
        magnitude2 == Magnitude(vec2)
    IN  IF Gt(magnitude1, Zero) /\ Gt(magnitude2, Zero)
        THEN Quotient(dot_product, SumSquares(vec1), SumSquares(vec2))
        ELSE Zero

(***************************************************************************)
(* build_similarity_graph                                                  *)
(***************************************************************************)
\* Graph::<String, f64>::new(): a directed graph, no nodes, no edges
NewGraph == [nodes |-> <<>>, edges |-> <<>>]

\* graph.add_node(country)
AddNode(g, country) == [g EXCEPT !.nodes = Append(@, country)]

\* variant: the edge goes from b to a
AddEdgeReversed(g, a, b, weight) ==
    [g EXCEPT !.edges = Append(@, [source |-> b, target |-> a, weight |-> weight])]

\* graph.add_edge(a, b, weight): petgraph appends the edge, whatever edges
\* the graph already has
AddEdge(g, a, b, weight) ==
    [g EXCEPT !.edges = Append(@, [source |-> a, target |-> b, weight |-> weight])]

NodeCount(g) == Len(g.nodes)

\* the records loop: one label and one feature row per record
RECURSIVE ReadNodes(_)
ReadNodes(records) ==
    IF records = <<>> THEN <<>>
    ELSE <<Country(Head(records))>> \o ReadNodes(Tail(records))

RECURSIVE ReadFeatureData(_)
ReadFeatureData(records) ==
    IF records = <<>> THEN <<>>
    ELSE <<FeaturesRow(Head(records))>> \o ReadFeatureData(Tail(records))

\* variant: a label the graph already has gets no second node
RECURSIVE AddNodesDistinct(_, _)
AddNodesDistinct(g, nodes) ==
    IF nodes = <<>> THEN g
    ELSE AddNodesDistinct(IF \E k \in 1..Len(g.nodes) : g.nodes[k] = Head(nodes)
                          THEN g ELSE AddNode(g, Head(nodes)),
                          Tail(nodes))

\* nodes.iter().map(|country| graph.add_node(country.clone()))
RECURSIVE AddNodes(_, _)
AddNodes(g, nodes) ==
    IF nodes = <<>> THEN g ELSE AddNodes(AddNode(g, Head(nodes)), Tail(nodes))

\* variant: the inner loop starts at i itself
InnerStartAtI(i) == i

\* the first j of the inner loop, for (i + 1)..feature_data.len()
InnerStart(i) == i + 1

\* variant: the comparison is strict
MeetsThresholdStrict(similarity, threshold) == Gt(similarity, threshold)

\* variant: the comparison is turned round
MeetsThresholdReversed(similarity, threshold) == Ge(threshold, similarity)

\* if similarity >= threshold
MeetsThreshold(similarity, threshold) == Ge(similarity, threshold)

\* the two nested loops over i and j, from position (i, j) on
RECURSIVE AddEdges(_, _, _, _, _)
AddEdges(g, feature_data, threshold, i, j) ==
    IF i > Len(feature_data) THEN g
    ELSE IF j > Len(feature_data)
         THEN AddEdges(g, feature_data, threshold, i + 1, InnerStart(i + 1))
         ELSE LET similarity == calculate_similarity(feature_data[i], feature_data[j])
              IN  AddEdges(IF MeetsThreshold(similarity, threshold)
                           THEN AddEdge(g, i, j, similarity)
                           ELSE g,
                           feature_data, threshold, i, j + 1)

\* variant: a cell that does not parse fails the read as well
ReadFailsOnCell(f) ==
    \/ ~f.exists
    \/ \E k \in 1..Len(f.records) :
          \/ ~RecordOk(f.records[k])
          \/ \E idx \in 1..2 : ParsedCell(f.records[k], idx) = None

\* Reader::from_path fails when the file cannot be opened, record? fails at
\* the first record that cannot be tokenized
ReadFails(f) ==
    \/ ~f.exists
    \/ \E k \in 1..Len(f.records) : ~RecordOk(f.records[k])

\* the graph of Ok(graph)
build_similarity_graph(f, threshold) ==
    LET nodes == ReadNodes(f.records)
        feature_data == ReadFeatureData(f.records)
    IN  AddEdges(AddNodes(NewGraph, nodes), feature_data, threshold, 1, InnerStart(1))

(***************************************************************************)
(* petgraph::unionfind::UnionFind, as cluster_graph uses it                *)
(***************************************************************************)
\* UnionFind::new(n): every element its own parent, rank 0
NewUnionFind(n) == [parent |-> [x \in 1..n |-> x], rank |-> [x \in 1..n |-> 0]]

\* find: follow the parents to the representative
RECURSIVE Find(_, _)
Find(uf, x) == IF uf.parent[x] = x THEN x ELSE Find(uf, uf.parent[x])

\* find_mut: the same, and each visited element is re-parented to its
\* grandparent on the way
RECURSIVE FindMut(_, _)
FindMut(uf, x) ==
    LET parent == uf.parent[x]
    IN  IF parent = x THEN [uf |-> uf, rep |-> x]
        ELSE LET grandparent == uf.parent[parent]
             IN  FindMut([uf EXCEPT !.parent[x] = grandparent], parent)

\* variant: y itself, not its representative, is linked under x's
UnionLinkingY(uf, x, y) ==
    IF x = y THEN uf ELSE [uf EXCEPT !.parent[y] = Find(uf, x)]

\* union(x, y): link the representative of lower rank under the other
Union(uf, x, y) ==
    IF x = y THEN uf
    ELSE LET fx == FindMut(uf, x)
             fy == FindMut(fx.uf, y)
             u == fy.uf
             xrep == fx.rep
             yrep == fy.rep
         IN  IF xrep = yrep THEN u
             ELSE IF u.rank[xrep] < u.rank[yrep]
                  THEN [u EXCEPT !.parent[xrep] = yrep]
             ELSE IF u.rank[xrep] > u.rank[yrep]
                  THEN [u EXCEPT !.parent[yrep] = xrep]
             ELSE [u EXCEPT !.parent[yrep] = xrep, !.rank[xrep] = @ + 1]

(***************************************************************************)
(* cluster_graph and select_representative                                 *)
(***************************************************************************)
\* variant: only the edges that leave the first node are united
RECURSIVE UnionEdgesOfFirst(_, _)
UnionEdgesOfFirst(uf, edges) ==
    IF edges = <<>> THEN uf
    ELSE UnionEdgesOfFirst(IF Head(edges).source = 1
                           THEN Union(uf, Head(edges).source, Head(edges).target)
                           ELSE uf,
                           Tail(edges))

\* for edge in graph.edge_indices() { uf.union(a, b) }
RECURSIVE UnionEdges(_, _)
UnionEdges(uf, edges) ==
    IF edges = <<>> THEN uf
    ELSE UnionEdges(Union(uf, Head(edges).source, Head(edges).target), Tail(edges))

\* variant: the entry is replaced, not extended
PushNodeReplacing(clusters, component_id, node) ==
    [c \in DOMAIN clusters \cup {component_id} |->
        IF c = component_id THEN <<node>> ELSE clusters[c]]

\* clusters.entry(component_id).or_default().push(node)
PushNode(clusters, component_id, node) ==
    IF component_id \in DOMAIN clusters
    THEN [clusters EXCEPT ![component_id] = Append(@, node)]
    ELSE [c \in DOMAIN clusters \cup {component_id} |->
            IF c = component_id THEN <<node>> ELSE clusters[c]]

\* for node in graph.node_indices(), from node on
RECURSIVE MapComponents(_, _, _, _)
MapComponents(clusters, uf, node, n) ==
    IF node > n THEN clusters
    ELSE MapComponents(PushNode(clusters, Find(uf, node), node), uf, node + 1, n)

EmptyMap == [c \in {} |-> <<>>]

\* the component map built by the first two loops of cluster_graph
Clusters(g) ==
    MapComponents(EmptyMap, UnionEdges(NewUnionFind(NodeCount(g)), g.edges),
                  1, NodeCount(g))

\* graph.edges(node).count(): in a directed Graph, edges(a) are the edges
\* going out of a
EdgesCount(g, node) ==
    Cardinality({e \in 1..Len(g.edges) : g.edges[e].source = node})

\* variant: of several maximal elements the first is kept
RECURSIVE MaxByKeyFirst(_, _, _, _)
MaxByKeyFirst(g, nodes, k, best) ==
    IF k > Len(nodes) THEN best
    ELSE MaxByKeyFirst(g, nodes, k + 1,
                       IF EdgesCount(g, nodes[k]) > EdgesCount(g, best)
                       THEN nodes[k] ELSE best)

\* Iterator::max_by_key: of several maximal elements the last is returned
RECURSIVE MaxByKey(_, _, _, _)
MaxByKey(g, nodes, k, best) ==
    IF k > Len(nodes) THEN best
    ELSE MaxByKey(g, nodes, k + 1,
                  IF EdgesCount(g, nodes[k]) >= EdgesCount(g, best)
                  THEN nodes[k] ELSE best)

\* variant: a cluster of one node gets no representative
select_representative_skipping(g, nodes) ==
    IF Len(nodes) < 2 THEN None ELSE Some(MaxByKey(g, nodes, 2, nodes[1]))

select_representative(g, nodes) ==
    IF nodes = <<>> THEN None ELSE Some(MaxByKey(g, nodes, 2, nodes[1]))

\* variant: the entries are keyed by their order of insertion
InsertNumbered(representatives, cluster_id, label) ==
    [c \in DOMAIN representatives \cup {Cardinality(DOMAIN representatives)} |->
        IF c = Cardinality(DOMAIN representatives) THEN label ELSE representatives[c]]

\* representatives.insert(cluster_id, graph[representative].clone())
Insert(representatives, cluster_id, label) ==
    [c \in DOMAIN representatives \cup {cluster_id} |->
        IF c = cluster_id THEN label ELSE representatives[c]]

\* for (cluster_id, nodes) in clusters, the map being visited in the order
\* given
RECURSIVE SelectAll(_, _, _, _)
SelectAll(representatives, g, clusters, order) ==
    IF order = <<>> THEN representatives
    ELSE LET cluster_id == Head(order)
             representative == select_representative(g, clusters[cluster_id])
         IN  SelectAll(IF IsSome(representative)
                       THEN Insert(representatives, cluster_id,
                                   g.nodes[Unwrap(representative)])
                       ELSE representatives,
                       g, clusters, Tail(order))

\* the orders in which a HashMap with the keys S may be iterated
RECURSIVE Orderings(_)
Orderings(S) ==
    IF S = {} THEN {<<>>}
    ELSE UNION { { <<c>> \o o : o \in Orderings(S \ {c}) } : c \in S }

\* component ids are node indices
OrderingsOf == [S \in SUBSET (1..MaxRows) |-> Orderings(S)]

IterationOrders(S) == OrderingsOf[S]

\* the result of cluster_graph when its map of clusters is iterated in the
\* order given; the function does not read its parameter _k
cluster_graph(g, _k, order) == SelectAll(EmptyMap, g, Clusters(g), order)

(***************************************************************************)
(* export_graph_to_csv                                                     *)
(***************************************************************************)
DigitStr(c) ==
    CASE c = 0 -> "0" [] c = 1 -> "1" [] c = 2 -> "2" [] c = 3 -> "3"
      [] c = 4 -> "4" [] c = 5 -> "5" [] c = 6 -> "6" [] c = 7 -> "7"
      [] c = 8 -> "8" [] OTHER -> "9"

\* |w| in millionths, as {:.6} rounds it: the decimal expansion of the
\* double is exact, and it is rounded to nearest, ties to even; |w| < 2000
Millionths(w) ==
    IF w[1] = 0 THEN 0
    ELSE LET n == NatMul(w[2], Nat3(1000000))
             t == -w[3]
             kept == NatShr(n, t)
             up == NatBit(n, t - 1) = 1 /\ (NatLowBits(n, t - 1) \/ NatOdd(kept))
         IN  NatInt(kept) + (IF up THEN 1 ELSE 0)

RECURSIVE PadDigits(_, _)
\* the last k decimal digits of x
PadDigits(x, k) ==
    IF k = 0 THEN "" ELSE PadDigits(x \div 10, k - 1) \o DigitStr(x % 10)

\* format!("{:.6}", weight) for |weight| < 10, an infinity or NaN
FormatWeight(w) ==
    LET m == Millionths(w)
    IN  IF IsNaN(w) THEN "NaN"
        ELSE IF IsInfinite(w) THEN (IF w[1] < 0 THEN "-inf" ELSE "inf")
        ELSE (IF w[1] < 0 THEN "-" ELSE "") \o DigitStr(m \div 1000000) \o "."
             \o PadDigits(m % 1000000, 6)

\* writeln!(file, "{}, {}, {:.6}", graph[source], graph[target], weight)
EdgeLine(g, edge) ==
    g.nodes[edge.source] \o ", " \o g.nodes[edge.target] \o ", "
    \o FormatWeight(edge.weight)

RECURSIVE EdgeLines(_, _)
\* for edge in graph.edge_indices(), from edge k on
EdgeLines(g, k) ==
    IF k > Len(g.edges) THEN <<>>
    ELSE <<EdgeLine(g, g.edges[k])>> \o EdgeLines(g, k + 1)

\* variant: the loop starts at the second edge
export_graph_to_csv_from_second(g) == <<"Source,Target,Weight">> \o EdgeLines(g, 2)

\* the lines of the file written
export_graph_to_csv(g) == <<"Source,Target,Weight">> \o EdgeLines(g, 1)

(***************************************************************************)
(* find_top_countries                                                      *)
(***************************************************************************)
\* the columns main passes: the label, the year, and the life expectancy
country_column == 0

year_column == 1

\* the third field of the rows of the model (the fourth of the data file)
life_expectancy_column == 2

\* if top_countries.len() == 5 { break; }
Top == 5

\* record.get(idx).unwrap_or(default)
GetOr(record, idx, default) ==
    IF IsSome(Get(record, idx)) THEN Unwrap(Get(record, idx)) ELSE default

\* the life expectancy of a record: 0.0 stands for a cell that does not parse
LifeExpectancy(record) ==
    LET parsed == ParseF64(GetOr(record, life_expectancy_column, "0"))
    IN  IF IsSome(parsed) THEN Unwrap(parsed) ELSE 0

\* the order of String on the labels that occur
Alphabet == <<"", "A", "B", "C", "D", "E", "F", "G">>

Rank(label) == CHOOSE r \in 1..Len(Alphabet) : Alphabet[r] = label

\* the order of the tuples (NotNan<f64>, String): by the number first, by
\* the label next
TupleLe(a, b) == a[1] < b[1] \/ (a[1] = b[1] /\ Rank(a[2]) <= Rank(b[2]))

\* year_data.entry(year).or_insert_with(BinaryHeap::new).push(item); the
\* heap is kept as the list of the items pushed
Push(year_data, year, item) ==
    IF year \in DOMAIN year_data
    THEN [year_data EXCEPT ![year] = Append(@, item)]
    ELSE [y \in DOMAIN year_data \cup {year} |->
            IF y = year THEN <<item>> ELSE year_data[y]]

\* the records loop of find_top_countries
RECURSIVE YearData(_, _)
YearData(year_data, records) ==
    IF records = <<>> THEN year_data
    ELSE LET record == Head(records)
             country == GetOr(record, country_column, "")
             year == GetOr(record, year_column, "")
         IN  YearData(Push(year_data, year, <<LifeExpectancy(record), country>>),
                      Tail(records))

\* the place in the heap of the item heap.pop() returns: the greatest
\* Reverse(item), which is the least item
PopPlace(heap) ==
    CHOOSE i \in 1..Len(heap) : \A j \in 1..Len(heap) : TupleLe(heap[i], heap[j])

\* the heap without the item at place i
Without(heap, i) == SubSeq(heap, 1, i - 1) \o SubSeq(heap, i + 1, Len(heap))

\* while let Some(Reverse((life_expectancy, country))) = heap.pop(), with
\* the entries already pushed
RECURSIVE PopLoop(_, _)
PopLoop(heap, listed) ==
    IF heap = <<>> \/ Len(listed) = Top THEN listed
    ELSE LET i == PopPlace(heap)
         IN  PopLoop(Without(heap, i), Append(listed, <<heap[i][2], heap[i][1]>>))

\* the list printed for each year: pairs of a country and its life
\* expectancy
find_top_countries(records) ==
    LET year_data == YearData(EmptyMap, records)
    IN  [year \in DOMAIN year_data |-> PopLoop(year_data[year], <<>>)]

(***************************************************************************)
(* The run: the graph section of main                                      *)
(***************************************************************************)
VARIABLES
    pc,               \* where main stands
    file,             \* the input file: whether it opens, and its data rows
    threshold,        \* the threshold passed to build_similarity_graph
    graph,            \* main's graph
    output,           \* the lines of graph_edge_list.csv
    clusters,         \* cluster_graph's component map, as last computed
    representatives,  \* main's representatives
    vec1, vec2,       \* the arguments of a call of calculate_similarity
    similarity,       \* and its result
    top_countries     \* the lists find_top_countries prints, by year

vars == <<pc, file, threshold, graph, output, clusters, representatives, vec1, vec2, similarity, top_countries>>

RECURSIVE SeqsUpTo(_, _)
\* the sequences over S of length at most n
SeqsUpTo(S, n) ==
    IF n = 0 THEN {<<>>}
    ELSE LET shorter == SeqsUpTo(S, n - 1)
         IN  shorter \cup { Append(q, x) : q \in {r \in shorter : Len(r) = n - 1}, x \in S }

Files ==
    { [exists |-> TRUE, records |-> r] : r \in SeqsUpTo(Records, MaxRows) }
    \cup { [exists |-> FALSE, records |-> <<>>] }

Init ==
    /\ pc = "start"
    /\ file \in Files
    /\ threshold \in Thresholds
    /\ graph = NewGraph
    /\ output = <<>>
    /\ clusters = EmptyMap
    /\ representatives = EmptyMap
    /\ vec1 = <<>>
    /\ vec2 = <<>>
    /\ similarity = Zero
    /\ top_countries = EmptyMap

\* let graph = build_similarity_graph(file_path, &features, threshold)?;
BuildOk ==
    /\ pc = "start"
    /\ ~ReadFails(file)
    /\ graph' = build_similarity_graph(file, threshold)
    /\ pc' = "built"
    /\ UNCHANGED <<file, threshold, output, clusters, representatives, vec1, vec2, similarity, top_countries>>

\* variant: the error of build_similarity_graph is dropped and main goes on
\* with an empty graph
BuildErrIgnored ==
    /\ pc = "start"
    /\ ReadFails(file)
    /\ pc' = "built"
    /\ UNCHANGED <<file, threshold, graph, output, clusters, representatives, vec1, vec2, similarity, top_countries>>

\* ... the ? returning the error from main
BuildErr ==
    /\ pc = "start"
    /\ ReadFails(file)
    /\ pc' = "aborted"
    /\ UNCHANGED <<file, threshold, graph, output, clusters, representatives, vec1, vec2, similarity, top_countries>>

\* export_graph_to_csv(&graph, output_file)?;
Export ==
    /\ pc = "built"
    /\ output' = export_graph_to_csv(graph)
    /\ pc' = "exported"
    /\ UNCHANGED <<file, threshold, graph, clusters, representatives, vec1, vec2, similarity, top_countries>>

\* variant: the edges are taken out of the graph as they are united
ClusterDraining ==
    /\ pc = "exported"
    /\ clusters' = Clusters(graph)
    /\ \E order \in IterationOrders(DOMAIN clusters') :
          representatives' = SelectAll(EmptyMap, graph, clusters', order)
    /\ graph' = [graph EXCEPT !.edges = <<>>]
    /\ pc' = "clustered"
    /\ UNCHANGED <<file, threshold, output, vec1, vec2, similarity, top_countries>>

\* let representatives = cluster_graph(&graph, k);
Cluster ==
    /\ pc = "exported"
    /\ clusters' = Clusters(graph)
    /\ \E order \in IterationOrders(DOMAIN clusters') :
          representatives' = SelectAll(EmptyMap, graph, clusters', order)
    /\ pc' = "clustered"
    /\ UNCHANGED <<file, threshold, graph, output, vec1, vec2, similarity, top_countries>>

Next == BuildOk \/ BuildErr \/ Export \/ Cluster

Spec == Init /\ [][Next]_vars

(***************************************************************************)
(* The same program on the tables of the worked cases, with thresholds at  *)
(* and next to the ends of the range [-1, 1]                               *)
(***************************************************************************)
\* the double next to the finite non-zero a on the side away from zero
Beyond(a) ==
    LET m == SubSeq(NatSucc(a[2]), 1, 4)
    IN  IF NatLen(m) > Precision THEN <<a[1], NatShr(m, 1), a[3] + 1>>
        ELSE <<a[1], m, a[3]>>

\* 0.99, the doubles next below -1 and next above 1, and 1 itself
CaseThresholds ==
    { Lit(99, 100), Beyond(FromInt(-1)), FromInt(1), Beyond(FromInt(1)) }

CaseFiles ==
    { [exists |-> TRUE, records |-> r] : r \in SeqsUpTo(CaseRecords, MaxRows) }

InitCases ==
    /\ pc = "start"
    /\ file \in CaseFiles
    /\ threshold \in CaseThresholds
    /\ graph = NewGraph
    /\ output = <<>>
    /\ clusters = EmptyMap
    /\ representatives = EmptyMap
    /\ vec1 = <<>>
    /\ vec2 = <<>>
    /\ similarity = Zero
    /\ top_countries = EmptyMap

SpecCases == InitCases /\ [][Next]_vars

(***************************************************************************)
(* The whole of main up to the report of the representatives: the steps    *)
(* before the graph section read the same file and draw plots, and each    *)
(* may fail, which main's ? turns into its own return                      *)
(***************************************************************************)
\* let threshold = 0.8;
MainThreshold == Lit(8, 10)

InitMain ==
    /\ pc = "main"
    /\ file \in Files
    /\ threshold = MainThreshold
    /\ graph = NewGraph
    /\ output = <<>>
    /\ clusters = EmptyMap
    /\ representatives = EmptyMap
    /\ vec1 = <<>>
    /\ vec2 = <<>>
    /\ similarity = Zero
    /\ top_countries = EmptyMap

\* load_csv_to_array(..)?; create_correlation_heatmap(..)?;
\* find_top_countries(..)?; create_scatter_plot(..)?; all returning Ok
EarlierOk ==
    /\ pc = "main"
    /\ pc' = "start"
    /\ UNCHANGED <<file, threshold, graph, output, clusters, representatives, vec1, vec2, similarity, top_countries>>

\* ... one of them returning Err, which ? returns from main
EarlierErr ==
    /\ pc = "main"
    /\ pc' = "aborted"
    /\ UNCHANGED <<file, threshold, graph, output, clusters, representatives, vec1, vec2, similarity, top_countries>>

NextMain == EarlierOk \/ EarlierErr \/ BuildOk \/ BuildErr \/ Export \/ Cluster

SpecMain == InitMain /\ [][NextMain]_vars

(***************************************************************************)
(* calculate_similarity on its own: every pair of vectors within the       *)
(* bounds, one call                                                        *)
(***************************************************************************)
Vectors == SeqsUpTo(-MaxVal..MaxVal, MaxLen)

InitSim ==
    /\ pc = "sim_call"
    /\ file = [exists |-> FALSE, records |-> <<>>]
    /\ threshold = Zero
    /\ graph = NewGraph
    /\ output = <<>>
    /\ clusters = EmptyMap
    /\ representatives = EmptyMap
    /\ vec1 \in Vectors
    /\ vec2 \in Vectors
    /\ similarity = Zero
    /\ top_countries = EmptyMap

CalculateSimilarity ==
    /\ pc = "sim_call"
    /\ similarity' = calculate_similarity(vec1, vec2)
    /\ pc' = "sim_done"
    /\ UNCHANGED <<file, threshold, graph, output, clusters, representatives, vec1, vec2, top_countries>>

NextSim == CalculateSimilarity

SpecSim == InitSim /\ [][NextSim]_vars

(***************************************************************************)
(***************************************************************************)
(* find_top_countries on its own: one call on a table of yearly rows       *)
(***************************************************************************)
\* the rows of the table: six countries in the year 2000, one of them with
\* a cell that does not parse, two with the same value; a row of another
\* year; a row with a field too few
TopRecords ==
    { <<"A", "2000", "2">>,
      <<"B", "2000", "1">>,
      <<"C", "2000", "3">>,
      <<"D", "2000", "0">>,
      <<"E", "2000", "x">>,
      <<"F", "2000", "1">>,
      <<"A", "2001", "1">>,
      <<"G", "2000">> }

\* one row more than a list holds
MaxTopRows == Top + 1

RECURSIVE DistinctSeqs(_, _)
\* the sequences of length at most n of different elements of S
DistinctSeqs(S, n) ==
    IF n = 0 THEN {<<>>}
    ELSE {<<>>} \cup UNION { { <<x>> \o q : q \in DistinctSeqs(S \ {x}, n - 1) } : x \in S }

TopFiles ==
    { [exists |-> TRUE, records |-> r] : r \in DistinctSeqs(TopRecords, MaxTopRows) }
    \cup { [exists |-> FALSE, records |-> <<>>] }

InitTop ==
    /\ pc = "top_call"
    /\ file \in TopFiles
    /\ threshold = Zero
    /\ graph = NewGraph
    /\ output = <<>>
    /\ clusters = EmptyMap
    /\ representatives = EmptyMap
    /\ vec1 = <<>>
    /\ vec2 = <<>>
    /\ similarity = Zero
    /\ top_countries = EmptyMap

\* find_top_countries(file_path, ..) returning Ok(())
FindTopCountriesOk ==
    /\ pc = "top_call"
    /\ ~ReadFails(file)
    /\ top_countries' = find_top_countries(file.records)
    /\ pc' = "top_done"
    /\ UNCHANGED <<file, threshold, graph, output, clusters, representatives, vec1, vec2, similarity>>

\* ... returning the error of Reader::from_path or of a record
FindTopCountriesErr ==
    /\ pc = "top_call"
    /\ ReadFails(file)
    /\ pc' = "top_failed"
    /\ UNCHANGED <<file, threshold, graph, output, clusters, representatives, vec1, vec2, similarity, top_countries>>

NextTop == FindTopCountriesOk \/ FindTopCountriesErr

SpecTop == InitTop /\ [][NextTop]_vars

(* Vocabulary of the properties                                            *)
(***************************************************************************)
Built == pc \in {"built", "exported", "clustered"}

Clustered == pc = "clustered"

Nodes == 1..NodeCount(graph)

EdgeIds == 1..Len(graph.edges)

\* the feature vector of data row i
Vector(i) == FeaturesRow(file.records[i])

\* the number of edges of which node is an endpoint
Degree(node) ==
    Cardinality({e \in EdgeIds : graph.edges[e].source = node \/ graph.edges[e].target = node})

\* the nodes of the cluster keyed c
Members(c) == {clusters[c][k] : k \in 1..Len(clusters[c])}

\* the labels of a set of nodes
Labels(S) == {graph.nodes[node] : node \in S}

\* the nodes of S at which key is largest
ArgMax(S, key(_)) == {node \in S : \A other \in S : key(other) <= key(node)}

\* the edge count select_representative compares
OutCount(node) == Cardinality({e \in EdgeIds : graph.edges[e].source = node})

\* the position of a node in its cluster's list
PositionIn(c, node) == CHOOSE k \in 1..Len(clusters[c]) : clusters[c][k] = node

\* the nodes one undirected edge away from the set S, and S itself
Step(S) ==
    S \cup {node \in Nodes : \E e \in EdgeIds :
              \/ graph.edges[e].source \in S /\ graph.edges[e].target = node
              \/ graph.edges[e].target \in S /\ graph.edges[e].source = node}

RECURSIVE Reach(_)
\* breadth-first search from S over the edges taken as undirected
Reach(S) == IF Step(S) = S THEN S ELSE Reach(Step(S))

\* the connected components of the graph
Components == {Reach({node}) : node \in Nodes}

(***************************************************************************)
(* C1  The representative of every cluster has the largest degree of the   *)
(* cluster, the degree of a node being the number of edges of the graph of *)
(* which it is an endpoint: the label reported for a cluster is the label  *)
(* of a node of the cluster that no node of the cluster exceeds in degree. *)
(***************************************************************************)
C1_RepresentativeHasMaxDegree ==
    Clustered =>
        \A c \in DOMAIN clusters :
            /\ c \in DOMAIN representatives
            /\ representatives[c] \in Labels(ArgMax(Members(c), Degree))

(***************************************************************************)
(* C2  Among the nodes of a cluster that share the largest edge count,     *)
(* select_representative returns the first in the cluster's node list.     *)
(* Amended: it returns the last of them; the list is in ascending node     *)
(* order, so the tied node of highest index is chosen.                     *)
(***************************************************************************)
ListAscending(c) ==
    \A k \in 1..(Len(clusters[c]) - 1) : clusters[c][k] < clusters[c][k + 1]

\* of the nodes of S, the one listed first (last) in cluster c
FirstOf(c, S) == CHOOSE node \in S : \A other \in S : PositionIn(c, node) <= PositionIn(c, other)

LastOf(c, S) == CHOOSE node \in S : \A other \in S : PositionIn(c, other) <= PositionIn(c, node)

\* the tied nodes, by the count select_representative compares
Tied(c) == ArgMax(Members(c), OutCount)

\* the tied nodes, by the number of incident edges
TiedByDegree(c) == ArgMax(Members(c), Degree)

\* the claim, applied to the clusters where several nodes share the largest
\* count and the first of them is the same node whichever way the edges of
\* a node are counted
C2_FirstTiedChosen ==
    Clustered =>
        \A c \in DOMAIN clusters :
            (/\ Cardinality(Tied(c)) >= 2
             /\ Cardinality(TiedByDegree(c)) >= 2
             /\ FirstOf(c, Tied(c)) = FirstOf(c, TiedByDegree(c))) =>
                /\ ListAscending(c)
                /\ select_representative(graph, clusters[c]) = Some(FirstOf(c, Tied(c)))
                /\ representatives[c] = graph.nodes[FirstOf(c, Tied(c))]

C2_LastTiedChosen ==
    Clustered =>
        \A c \in DOMAIN clusters :
            /\ ListAscending(c)
            /\ select_representative(graph, clusters[c]) = Some(LastOf(c, Tied(c)))
            /\ representatives[c] = graph.nodes[LastOf(c, Tied(c))]

\* a cluster in which several nodes share the largest count, the first of
\* them whichever way the edges are counted being another than the last
C2_Witness ==
    /\ Clustered
    /\ \E c \in DOMAIN clusters :
          /\ Cardinality(Tied(c)) >= 2
          /\ Cardinality(TiedByDegree(c)) >= 2
          /\ FirstOf(c, Tied(c)) = FirstOf(c, TiedByDegree(c))
          /\ graph.nodes[FirstOf(c, Tied(c))] # graph.nodes[LastOf(c, Tied(c))]

(***************************************************************************)
(* C3  calculate_similarity(u, v) is dot(u', v') / (norm(u') * norm(v'))   *)
(* with u', v' the prefixes of u, v of the length of the shorter.          *)
(* Amended: only the dot product is taken over the shared leading          *)
(* positions; each norm is taken over the whole of its own vector.         *)
(***************************************************************************)
RECURSIVE Sigma(_)
Sigma(q) == IF q = <<>> THEN 0 ELSE Head(q) + Sigma(Tail(q))

Shared(u, v) == SubSeq(u, 1, Min(Len(u), Len(v)))

\* the dot product of two vectors of one length
Dot(u, v) == Sigma([p \in 1..Len(u) |-> u[p] * v[p]])

NormSq(u) == Dot(u, u)

\* s is dot / (sqrt(nsq1) * sqrt(nsq2)), each operation rounded as f64
\* rounds it
IsQuotient(s, dot, nsq1, nsq2) == s = Quotients[dot][nsq1][nsq2]

C3_NormsOverPrefix ==
    LET u == Shared(vec1, vec2)
        v == Shared(vec2, vec1)
    IN  (pc = "sim_done" /\ NormSq(u) > 0 /\ NormSq(v) > 0) =>
            IsQuotient(similarity, Dot(u, v), NormSq(u), NormSq(v))

C3_NormsOverWhole ==
    LET u == Shared(vec1, vec2)
        v == Shared(vec2, vec1)
    IN  (pc = "sim_done" /\ NormSq(vec1) > 0 /\ NormSq(vec2) > 0) =>
            IsQuotient(similarity, Dot(u, v), NormSq(vec1), NormSq(vec2))

\* vectors of different lengths, the longer with weight beyond the prefix
C3_Witness ==
    /\ pc = "sim_done"
    /\ Len(vec1) < Len(vec2)
    /\ NormSq(vec1) > 0
    /\ NormSq(Shared(vec2, vec1)) > 0
    /\ NormSq(Shared(vec2, vec1)) < NormSq(vec2)
    /\ Dot(Shared(vec1, vec2), Shared(vec2, vec1)) < 0
    /\ similarity # Zero

(***************************************************************************)
(* C4  Rows i < j are joined by an edge exactly when the similarity of     *)
(* their vectors is at least the threshold; the edge's weight is that      *)
(* similarity, so every weight is at least the threshold.                  *)
(***************************************************************************)
Between(i, j) ==
    {e \in EdgeIds : {graph.edges[e].source, graph.edges[e].target} = {i, j}}

C4_EdgeIffSimilar ==
    pc = "built" =>
        /\ NodeCount(graph) = Len(file.records)
        /\ \A i, j \in Nodes :
              i < j =>
                LET sim == calculate_similarity(Vector(i), Vector(j))
                IN  /\ (Between(i, j) # {}) <=> Ge(sim, threshold)
                    /\ \A e \in Between(i, j) : graph.edges[e].weight = sim
        /\ \A e \in EdgeIds : Ge(graph.edges[e].weight, threshold)

\* an edge whose weight is exactly the threshold, and a pair left unjoined
C4_Witness ==
    /\ pc = "built"
    /\ \E e \in EdgeIds : graph.edges[e].weight = threshold
    /\ \E i, j \in Nodes : i < j /\ Between(i, j) = {}

(***************************************************************************)
(* C5  The graph built is simple: no edge joins a node to itself, no two   *)
(* edges join the same pair of nodes, and there are at most n(n-1)/2 edges *)
(* for n rows.                                                             *)
(***************************************************************************)
C5_GraphSimple ==
    Built =>
        /\ \A e \in EdgeIds :
              /\ graph.edges[e].source \in Nodes
              /\ graph.edges[e].target \in Nodes
              /\ graph.edges[e].source # graph.edges[e].target
        /\ \A e, f \in EdgeIds :
              e # f => {graph.edges[e].source, graph.edges[e].target}
                         # {graph.edges[f].source, graph.edges[f].target}
        /\ 2 * Len(graph.edges) <= NodeCount(graph) * (NodeCount(graph) - 1)

\* a complete graph on three rows or more
C5_Witness ==
    /\ Built
    /\ NodeCount(graph) >= 3
    /\ 2 * Len(graph.edges) = NodeCount(graph) * (NodeCount(graph) - 1)

(***************************************************************************)
(* C6  The clusters partition the nodes: every node, isolated ones         *)
(* included, is listed in exactly one cluster and there once.              *)
(***************************************************************************)
Listings(node) ==
    {ck \in UNION {{<<c, k>> : k \in 1..Len(clusters[c])} : c \in DOMAIN clusters} :
        clusters[ck[1]][ck[2]] = node}

C6_ClustersPartition ==
    Clustered =>
        /\ \A node \in Nodes : Cardinality(Listings(node)) = 1
        /\ UNION {Members(c) : c \in DOMAIN clusters} = Nodes
        /\ \A c, d \in DOMAIN clusters : c # d => Members(c) \cap Members(d) = {}

\* an isolated node next to a cluster of several nodes
C6_Witness ==
    /\ Clustered
    /\ \E node \in Nodes : Degree(node) = 0
    /\ \E c \in DOMAIN clusters : Cardinality(Members(c)) >= 2

(***************************************************************************)
(* C7  The clusters are the connected components found by breadth-first    *)
(* search over the edges taken as undirected; a node without edges is a    *)
(* cluster of its own.                                                     *)
(***************************************************************************)
C7_ClustersAreComponents ==
    Clustered =>
        /\ {Members(c) : c \in DOMAIN clusters} = Components
        /\ \A node \in Nodes :
              Degree(node) = 0 => \E c \in DOMAIN clusters : clusters[c] = <<node>>

\* a cluster holding two nodes that no edge joins directly, and a singleton
C7_Witness ==
    /\ Clustered
    /\ \E c \in DOMAIN clusters :
          \E a, b \in Members(c) : a < b /\ Between(a, b) = {}
    /\ \E c \in DOMAIN clusters : Len(clusters[c]) = 1

(***************************************************************************)
(* C8  cluster_graph returns one representative per cluster, a node of     *)
(* that cluster: no cluster is empty, select_representative returns a node *)
(* for each, the map has as many entries as the graph has connected        *)
(* components, and each label is that of a member of the cluster keyed.    *)
(***************************************************************************)
C8_OneMemberPerCluster ==
    Clustered =>
        /\ DOMAIN representatives = DOMAIN clusters
        /\ Cardinality(DOMAIN representatives) = Cardinality(Components)
        /\ \A c \in DOMAIN clusters :
              /\ clusters[c] # <<>>
              /\ IsSome(select_representative(graph, clusters[c]))
              /\ Unwrap(select_representative(graph, clusters[c])) \in Members(c)
              /\ representatives[c] \in Labels(Members(c))

\* several clusters, one of a single node, one whose representative's label
\* occurs in no other cluster
C8_Witness ==
    /\ Clustered
    /\ \E c, d \in DOMAIN clusters :
          /\ c # d
          /\ Len(clusters[c]) = 1
          /\ Len(clusters[d]) >= 2
          /\ representatives[d] \notin Labels(Nodes \ Members(d))

(***************************************************************************)
(* C9  A second call of cluster_graph on the same graph gives the same     *)
(* clusters and the same representative for each, in whatever order the    *)
(* hash map of clusters is iterated.                                       *)
(***************************************************************************)
C9_ClusteringDeterministic ==
    Clustered =>
        /\ Clusters(graph) = clusters
        /\ \A order \in IterationOrders(DOMAIN clusters) :
              SelectAll(EmptyMap, graph, clusters, order) = representatives

\* three clusters or more, with representatives that differ
C9_Witness ==
    /\ Clustered
    /\ Cardinality(DOMAIN clusters) >= 3
    /\ \E c, d \in DOMAIN clusters : representatives[c] # representatives[d]

(***************************************************************************)
(* C10  For thresholds t1 <= t2 and one file, the edges built at t2 are    *)
(* among the edges built at t1, endpoints and weights alike.               *)
(***************************************************************************)
EdgeSet(g) == {g.edges[e] : e \in 1..Len(g.edges)}

C10_ThresholdMonotone ==
    pc = "built" =>
        \A t \in Thresholds :
            LET other == EdgeSet(build_similarity_graph(file, t))
            IN  /\ Ge(t, threshold) => other \subseteq EdgeSet(graph)
                /\ Ge(threshold, t) => EdgeSet(graph) \subseteq other

\* a higher threshold that keeps some of the edges and loses others
C10_Witness ==
    /\ pc = "built"
    /\ \E t \in Thresholds :
          /\ Gt(t, threshold)
          /\ EdgeSet(build_similarity_graph(file, t)) # {}
          /\ EdgeSet(build_similarity_graph(file, t)) # EdgeSet(graph)

(***************************************************************************)
(* C11  Every value calculate_similarity returns lies in the closed range  *)
(* [-1, 1], whatever the two vectors and their lengths.                    *)
(***************************************************************************)
InUnitRange(s) == Ge(s, FromInt(-1)) /\ Ge(FromInt(1), s)

C11_SimilarityInRange == pc = "sim_done" => InUnitRange(similarity)

(***************************************************************************)
(* C12  Similarity is symmetric: calculate_similarity(u, v) and            *)
(* calculate_similarity(v, u) are the same value, for vectors of equal or  *)
(* of different lengths.                                                   *)
(***************************************************************************)
C12_Symmetric ==
    pc = "sim_done" => similarity = calculate_similarity(vec2, vec1)

\* vectors of different lengths and different norms, with a similarity that
\* took rounding
C12_Witness ==
    /\ pc = "sim_done"
    /\ Len(vec1) # Len(vec2)
    /\ NormSq(vec1) # NormSq(vec2)
    /\ similarity # Zero
    /\ similarity # FromInt(1)
    /\ similarity # FromInt(-1)

(***************************************************************************)
(* C13  The similarity of a vector of non-zero norm with itself is 1.      *)
(***************************************************************************)
C13_SelfSimilarityOne ==
    (pc = "sim_done" /\ vec1 = vec2 /\ NormSq(vec1) > 0) =>
        similarity = FromInt(1)

(***************************************************************************)
(* C14  When either vector has norm 0, being all zeros or empty, the       *)
(* result is 0: the quotient, which would be NaN, is not taken.            *)
(***************************************************************************)
C14_ZeroNormGivesZero ==
    (pc = "sim_done" /\ (NormSq(vec1) = 0 \/ NormSq(vec2) = 0)) =>
        similarity = Zero

\* an all-zero vector against one of non-zero norm
C14_Witness ==
    /\ pc = "sim_done"
    /\ Len(vec1) > 1
    /\ NormSq(vec1) = 0
    /\ NormSq(vec2) > 0
    /\ similarity = Zero

(***************************************************************************)
(* C15  Under a threshold above 0, a row whose feature vector has norm 0   *)
(* is an endpoint of no edge of the built graph, is alone in its cluster   *)
(* and is reported as that cluster's representative.  Hence a row of norm  *)
(* 0 that has an edge was built under a threshold of 0 or less.            *)
(***************************************************************************)
ZeroNorm(i) == NormSq(Vector(i)) = 0

C15_ZeroNormIsolated ==
    \A i \in Nodes :
        (Built /\ ZeroNorm(i)) =>
            /\ Gt(threshold, Zero) => Degree(i) = 0
            /\ Degree(i) > 0 => Ge(Zero, threshold)
            /\ (Clustered /\ Gt(threshold, Zero)) =>
                  \E c \in DOMAIN clusters :
                      /\ clusters[c] = <<i>>
                      /\ c \in DOMAIN representatives
                      /\ representatives[c] = graph.nodes[i]

\* a clustered graph with edges, built under a threshold above 0 from a file
\* that has a row of norm 0 between rows that are joined
C15_Witness ==
    /\ Clustered
    /\ Gt(threshold, Zero)
    /\ \E i \in Nodes :
          /\ ZeroNorm(i)
          /\ \E e \in EdgeIds : graph.edges[e].source < i /\ i < graph.edges[e].target

(***************************************************************************)
(* C16  A threshold above 1 gives a graph without edges, and a threshold   *)
(* below -1 gives an edge for every pair of rows i < j, for every table    *)
(* that can be read.                                                       *)
(***************************************************************************)
C16_OutsideRange ==
    pc = "built" =>
        /\ Gt(threshold, FromInt(1)) => EdgeIds = {}
        /\ Gt(FromInt(-1), threshold) =>
              \A i, j \in Nodes : i < j => Between(i, j) # {}

(***************************************************************************)
(* C17  The table with the rows A = [1, 0], B = [1, 0], C = [0, 1], in     *)
(* that order, under the threshold 0.99: the graph has one edge, it joins  *)
(* A and B and weighs 1; the clusters are {A, B} and {C}; the              *)
(* representative of {A, B} is A or B, that of {C} is C.                   *)
(***************************************************************************)
RowsABC ==
    /\ file.records = << <<"A", "1", "0">>, <<"B", "1", "0">>, <<"C", "0", "1">> >>
    /\ threshold = Lit(99, 100)

C17_RowsABC ==
    RowsABC =>
        /\ Built =>
              /\ graph.nodes = <<"A", "B", "C">>
              /\ Len(graph.edges) = 1
              /\ Between(1, 2) = {1}
              /\ graph.edges[1].weight = FromInt(1)
        /\ Clustered =>
              /\ {Members(c) : c \in DOMAIN clusters} = {{1, 2}, {3}}
              /\ Cardinality(DOMAIN clusters) = 2
              /\ DOMAIN representatives = DOMAIN clusters
              /\ \A c \in DOMAIN clusters :
                    /\ Members(c) = {1, 2} => representatives[c] \in {"A", "B"}
                    /\ Members(c) = {3} => representatives[c] = "C"

C17_Witness == RowsABC /\ Clustered /\ Cardinality(DOMAIN representatives) = 2

(***************************************************************************)
(* C18  The file written has 1 + |E| lines for a graph with the edges E:   *)
(* the header Source,Target,Weight first, then the line of each edge, one  *)
(* line an edge, in the order of the edges.                                *)
(***************************************************************************)
Exported == pc \in {"exported", "clustered"}

C18_OneLinePerEdge ==
    Exported =>
        /\ Len(output) = 1 + Len(graph.edges)
        /\ output[1] = "Source,Target,Weight"
        /\ \A e \in EdgeIds : output[e + 1] = EdgeLine(graph, graph.edges[e])

\* three edges or more, not all with the same line
C18_Witness ==
    /\ Exported
    /\ Len(graph.edges) >= 3
    /\ \E e, f \in EdgeIds : output[e + 1] # output[f + 1]

(***************************************************************************)
(* C19  Every data line of the file written splits on the comma into       *)
(* three fields: the label of the edge's source, the label of its target,  *)
(* and its weight with six fractional digits, nothing added to any of      *)
(* them, as the header splits into Source, Target, Weight.                 *)
(***************************************************************************)
Commas(line) == {k \in 1..Len(line) : SubSeq(line, k, k) = ","}

RECURSIVE Split(_)
\* the fields of a line, the comma being the delimiter
Split(line) ==
    IF Commas(line) = {} THEN <<line>>
    ELSE LET k == CHOOSE c \in Commas(line) : \A other \in Commas(line) : c <= other
         IN  <<SubSeq(line, 1, k - 1)>> \o Split(SubSeq(line, k + 1, Len(line)))

\* a number with six fractional digits
SixDigits(field) ==
    /\ Len(field) >= 8
    /\ SubSeq(field, Len(field) - 6, Len(field) - 6) = "."

C19_LinesSplitIntoFields ==
    Exported =>
        /\ Split(output[1]) = <<"Source", "Target", "Weight">>
        /\ \A e \in EdgeIds :
              /\ Split(output[e + 1]) =
                    << graph.nodes[graph.edges[e].source],
                       graph.nodes[graph.edges[e].target],
                       FormatWeight(graph.edges[e].weight) >>
              /\ SixDigits(Split(output[e + 1])[3])

(***************************************************************************)
(* C20  A file that can be read but has no data row, or whose rows have no *)
(* usable cell in any requested feature column, is answered with an error: *)
(* no graph is built from it.                                              *)
(***************************************************************************)
EmptyInput ==
    /\ ~ReadFails(file)
    /\ \A k \in 1..Len(file.records) : FeaturesRow(file.records[k]) = <<>>

C20_EmptyInputIsError == (EmptyInput /\ pc # "start") => pc = "aborted"

(***************************************************************************)
(* C21  build_similarity_graph fails, and hands no graph over, exactly     *)
(* when the file cannot be opened or one of its rows cannot be tokenized;  *)
(* a requested cell that is missing or does not parse never fails the      *)
(* call, and the row it belongs to is a node of the graph all the same.    *)
(***************************************************************************)
\* the file opens
Opens == file.exists

\* row k has as many fields as the header
Tokenized(k) == Len(file.records[k]) = Len(Header)

\* the requested cells of row k that are missing or do not parse
DroppedCells(k) ==
    {p \in 1..Len(Features) :
        \/ Features[p] + 1 > Len(file.records[k])
        \/ ParseF64(file.records[k][Features[p] + 1]) = None}

C21_ErrorIffUnreadable ==
    pc # "start" =>
        /\ pc = "aborted" <=> (~Opens \/ \E k \in 1..Len(file.records) : ~Tokenized(k))
        /\ pc = "aborted" =>
              graph = NewGraph /\ output = <<>> /\ representatives = EmptyMap
        /\ pc # "aborted" => NodeCount(graph) = Len(file.records)

\* a graph built from rows of which one has a cell that does not parse, and
\* all lack the last requested column
C21_Witness ==
    /\ pc = "built"
    /\ Len(file.records) >= 2
    /\ \A k \in 1..Len(file.records) : DroppedCells(k) # {}
    /\ \E k \in 1..Len(file.records) : Cardinality(DroppedCells(k)) >= 2
    /\ NodeCount(graph) = Len(file.records)

(***************************************************************************)
(* C22  cluster_graph and export_graph_to_csv leave the graph as           *)
(* build_similarity_graph returned it: its nodes, their labels, its edges  *)
(* and their weights are the same after every call of either.              *)
(***************************************************************************)
C22_GraphUnchanged == [][(pc \in {"built", "exported"}) => (graph' = graph)]_vars

\* both have run on a graph with several edges
C22_Witness ==
    /\ Clustered
    /\ Len(graph.edges) >= 2
    /\ Len(output) = 1 + Len(graph.edges)
    /\ graph = build_similarity_graph(file, threshold)

(***************************************************************************)
(* C23  The graph has one node for each data row, in the order of the      *)
(* rows: node k is labelled with the label cell of row k, or with the      *)
(* empty string if the row has no such cell.  Rows with the same label,    *)
(* and rows whose feature vector is empty, have a node of their own each.  *)
(***************************************************************************)
\* the label cell of row k
LabelCell(k) == IF Len(file.records[k]) >= 1 THEN file.records[k][1] ELSE ""

C23_NodePerRow ==
    Built =>
        /\ NodeCount(graph) = Len(file.records)
        /\ \A k \in 1..Len(file.records) : graph.nodes[k] = LabelCell(k)

\* rows with different labels, two rows with the same label, and a row whose
\* feature vector is empty
C23_Witness ==
    /\ Built
    /\ \E i, j \in 1..Len(file.records) :
          i < j /\ LabelCell(i) = LabelCell(j) /\ graph.nodes[i] = graph.nodes[j]
    /\ \E i, j \in 1..Len(file.records) : i < j /\ LabelCell(i) # LabelCell(j)
    /\ \E k \in 1..Len(file.records) : Vector(k) = <<>>
    /\ NodeCount(graph) >= 3

(***************************************************************************)
(* C24  The feature vector of a row holds the values of the requested      *)
(* columns, in the order requested, of the cells that the row has and that *)
(* parse as a number: it is as long as there are such cells, and a cell    *)
(* that is dropped leaves no value in its place.  The graph is the one     *)
(* these vectors give.                                                     *)
(***************************************************************************)
\* the positions, in the list of requested columns, of the cells kept
KeptCells(k) == (1..Len(Features)) \ DroppedCells(k)

\* the q-th of them
KeptCell(k, q) ==
    CHOOSE p \in KeptCells(k) : Cardinality({r \in KeptCells(k) : r <= p}) = q

\* their values, in that order
KeptValues(k) ==
    [q \in 1..Cardinality(KeptCells(k)) |->
        Unwrap(ParseF64(file.records[k][Features[KeptCell(k, q)] + 1]))]

C24_VectorOfParsableCells ==
    pc = "built" =>
        /\ \A k \in 1..Len(file.records) :
              /\ Vector(k) = KeptValues(k)
              /\ Len(Vector(k)) = Cardinality(KeptCells(k))
        /\ graph = AddEdges(AddNodes(NewGraph, graph.nodes),
                            [k \in 1..Len(file.records) |-> KeptValues(k)],
                            threshold, 1, InnerStart(1))

\* a row that loses a cell before one it keeps, and has an edge
C24_Witness ==
    /\ pc = "built"
    /\ \E k \in 1..Len(file.records) :
          /\ \E p \in DroppedCells(k), r \in KeptCells(k) : p < r
          /\ Len(Vector(k)) = 1
          /\ Degree(k) >= 1

(***************************************************************************)
(* C25  Column alignment: for every pair of rows i < j of a table that is  *)
(* read, and every position p at which calculate_similarity multiplies the *)
(* two feature vectors, the value at p of row i's vector and the value at  *)
(* p of row j's vector were read from the same requested column.           *)
(***************************************************************************)
\* the positions that zip pairs up in the vectors of rows i and j
Zipped(i, j) == 1..Min(Len(Vector(i)), Len(Vector(j)))

C25_ColumnsAligned ==
    pc = "built" =>
        \A i, j \in 1..Len(file.records) :
            i < j => \A p \in Zipped(i, j) : KeptCell(i, p) = KeptCell(j, p)

(***************************************************************************)
(* C26  Every edge of the graph has both its ends in one cluster.  So the  *)
(* degree of a node counted over the whole graph is its degree counted     *)
(* over the edges within its own cluster, and the representative of a      *)
(* cluster is the same whichever of the two counts it is chosen by.        *)
(***************************************************************************)
\* the key of the cluster that lists node
ClusterOf(node) == CHOOSE c \in DOMAIN clusters : node \in Members(c)

\* the edges with both ends among the members of cluster c
Within(c) ==
    {e \in EdgeIds : graph.edges[e].source \in Members(c)
                      /\ graph.edges[e].target \in Members(c)}

\* the graph with these edges only
Subgraph(c) ==
    [nodes |-> graph.nodes,
     edges |-> SelectSeq(graph.edges,
                         LAMBDA edge : edge.source \in Members(c)
                                       /\ edge.target \in Members(c))]

C26_EdgesStayInCluster ==
    Clustered =>
        /\ \A e \in EdgeIds :
              ClusterOf(graph.edges[e].source) = ClusterOf(graph.edges[e].target)
        /\ \A node \in Nodes :
              /\ Degree(node) =
                    Cardinality({e \in Within(ClusterOf(node)) :
                                    graph.edges[e].source = node
                                    \/ graph.edges[e].target = node})
              /\ EdgesCount(graph, node) = EdgesCount(Subgraph(ClusterOf(node)), node)
        /\ \A c \in DOMAIN clusters :
              /\ select_representative(Subgraph(c), clusters[c])
                    = select_representative(graph, clusters[c])
              /\ representatives[c]
                    = graph.nodes[Unwrap(select_representative(Subgraph(c), clusters[c]))]

\* a cluster of three nodes held together by two edges, beside another
\* cluster
C26_Witness ==
    /\ Clustered
    /\ \E c, d \in DOMAIN clusters :
          /\ c # d
          /\ Cardinality(Within(c)) = 2
          /\ Cardinality(Members(c)) = 3
          /\ \E node \in Members(c) : Degree(node) = 2

(***************************************************************************)
(* C27  The order of a run of main: the edge list is written, and the      *)
(* representatives are computed, only after build_similarity_graph has     *)
(* returned a graph; when it fails, or a step before it fails, the run     *)
(* ends there: the file of the edge list is not written and no             *)
(* representative is reported.                                             *)
(***************************************************************************)
C27_RunOrdering ==
    /\ [](pc = "aborted" =>
            graph = NewGraph /\ output = <<>> /\ representatives = EmptyMap)
    /\ [](output # <<>> \/ representatives # EmptyMap =>
            Opens /\ \A k \in 1..Len(file.records) : Tokenized(k))
    /\ [][ /\ (output' # output) => (pc = "built" /\ NodeCount(graph) = Len(file.records))
           /\ (representatives' # representatives) => (pc = "exported" /\ output # <<>>)
           /\ (pc = "aborted") => (pc' = "aborted") ]_vars

\* a run that build_similarity_graph has ended
C27_Witness ==
    /\ pc = "aborted"
    /\ Opens
    /\ \E k \in 1..Len(file.records) : ~Tokenized(k)
    /\ \E k \in 1..Len(file.records) : Tokenized(k)
    /\ output = <<>>

(***************************************************************************)
(* C28  cluster_graph(graph, k) returns at most k representatives, for     *)
(* every graph and every k, k being the number of representatives asked    *)
(* for.                                                                    *)
(***************************************************************************)
\* the numbers of representatives a caller may ask for; main asks for 5
Ks == 1..(MaxRows + 1)

C28_AtMostKRepresentatives ==
    Clustered =>
        \A k \in Ks :
            representatives \in {cluster_graph(graph, k, order) :
                                   order \in IterationOrders(DOMAIN clusters)}
            => Cardinality(DOMAIN representatives) <= k

(***************************************************************************)
(* C29  Every edge of the graph goes from the row with the lower index to  *)
(* the row with the higher one.  So the number of edges going out of a     *)
(* node is the number of later rows it is similar to, and the Source       *)
(* column of every line of the file written names the earlier row of the   *)
(* pair.                                                                   *)
(***************************************************************************)
\* the rows after row i that meet the threshold with it
LaterSimilar(i) ==
    {j \in Nodes : i < j /\ Ge(calculate_similarity(Vector(i), Vector(j)), threshold)}

C29_EdgesPointForward ==
    /\ Built => \A e \in EdgeIds : graph.edges[e].source < graph.edges[e].target
    /\ pc = "built" =>
          \A node \in Nodes :
              EdgesCount(graph, node) = Cardinality(LaterSimilar(node))
    /\ Exported =>
          \A e \in EdgeIds :
              Split(output[e + 1])[1] =
                  LabelCell(Min(graph.edges[e].source, graph.edges[e].target))

\* in a file written: a row with edges to two later rows, and an edge
\* between rows of different labels that does not leave the first row
C29_Witness ==
    /\ Exported
    /\ \E node \in Nodes : Cardinality(LaterSimilar(node)) >= 2
    /\ \E e \in EdgeIds :
          /\ graph.nodes[graph.edges[e].source] # graph.nodes[graph.edges[e].target]
          /\ graph.edges[e].source > 1

(***************************************************************************)
(* C30  find_top_countries lists, for every year of the table, the top 5   *)
(* countries of the year: at most 5 entries, all the rows of the year when *)
(* there are fewer than 5, and no row of the year that is left out has a   *)
(* life expectancy strictly above that of a row listed.                    *)
(***************************************************************************)
\* the rows of a year
YearRows(year) ==
    {k \in 1..Len(file.records) : GetOr(file.records[k], year_column, "") = year}

\* the years of the table
Years == {GetOr(file.records[k], year_column, "") : k \in 1..Len(file.records)}

\* what a list shows of row k
Entry(k) ==
    <<GetOr(file.records[k], country_column, ""), LifeExpectancy(file.records[k])>>

C30_TopFivePerYear ==
    pc = "top_done" =>
        /\ DOMAIN top_countries = Years
        /\ \A year \in Years :
              LET listed == top_countries[year]
              IN  /\ Len(listed) = Min(Top, Cardinality(YearRows(year)))
                  /\ \E S \in SUBSET YearRows(year) :
                        /\ Cardinality(S) = Len(listed)
                        /\ {Entry(k) : k \in S} = {listed[p] : p \in 1..Len(listed)}
                        /\ \A k \in YearRows(year) \ S, p \in 1..Len(listed) :
                              Entry(k)[2] <= listed[p][2]

====
